---- MODULE Spec2Model ----
(***************************************************************************)
(* Model of get_memory_usage (src/src/memory_usage.cpp): a wrapper around  *)
(* OpenProcess / GetProcessMemoryInfo / CloseHandle that returns the       *)
(* working set size of a process as a C int, or -1.                        *)
(*                                                                         *)
(* Several callers (threads of the host application) may be inside the     *)
(* function at once.  Every OS call is one atomic step, taken together     *)
(* with the local code that follows it up to the next OS call or return.   *)
(* The OS side is the handle table of the calling process; what the OS     *)
(* answers to a call is an input of the step.                              *)
(*                                                                         *)
(* SIZE_T is 64 bits wide and does not fit TLC's integers, so a SIZE_T is  *)
(* a record of four 16-bit limbs w3:w2:w1:w0 (w3 most significant).  The   *)
(* int returned by the function is an ordinary integer in -2^31..2^31-1.   *)
(***************************************************************************)
EXTENDS Integers, Sequences, FiniteSets, TLC

\* ---- bounds ----
NumThreads == 2
MaxPid == 1
MaxHandle == 2

Threads == 1..NumThreads
\* pid 0 is the reserved idle process, MaxPid + 1 an identifier no process
\* ever gets; the pids between may name a process.
PIDs == 0..(MaxPid + 1)
LivePids == 1..MaxPid
Handles == 1..MaxHandle

NULL == 0
NoOwner == 0

\* The SIZE_T whose limbs are w3:w2:w1:w0.
SizeT(w3, w2, w1, w0) == [w3 |-> w3, w2 |-> w2, w1 |-> w1, w0 |-> w0]

\* Working set sizes the OS reports in the model: whole pages (4096 bytes)
\* on both sides of the boundaries of int and of 32 bits.
WorkingSetSizes ==
    { SizeT(0, 0, 0, 4096),           \* one page
      SizeT(0, 0, 32767, 61440),      \* 2^31 - 4096
      SizeT(0, 0, 32768, 0),          \* 2^31
      SizeT(0, 1, 0, 4096) }          \* 2^32 + 4096

\* memory_usage = pmc.WorkingSetSize: conversion of a SIZE_T to int keeps the
\* low 32 bits and reads them as two's complement.
ToInt(c) ==
    IF c.w1 >= 2^15 THEN (c.w1 - 2^16) * 2^16 + c.w0
                    ELSE c.w1 * 2^16 + c.w0

\* The integer r is the number the SIZE_T c stands for.
EqualsCounter(r, c) ==
    /\ c.w3 = 0
    /\ c.w2 = 0
    /\ c.w1 < 2^15
    /\ r = c.w1 * 2^16 + c.w0

\* Value returned when the process could not be opened.
NotFoundValue == -1

\* Variant: a failed query reports zero usage.
QueryFailedValueZero == NotFoundValue + 1

\* Value returned when the memory query failed.
QueryFailedValue == -1

VARIABLES
    handleTable,    \* OS: handle -> thread that holds it open, or NoOwner
    pc,             \* thread -> position in get_memory_usage
    pid,            \* thread -> argument pid
    process,        \* thread -> local HANDLE process
    pmc,            \* thread -> local pmc.WorkingSetSize, <<>> while unset
    memory_usage,   \* thread -> local int memory_usage, <<>> while unset
    result,         \* thread -> value returned to the caller, <<>> before
    trace,          \* thread -> OS calls made by the current invocation
    again           \* thread -> the invocation repeats the thread's last pid

vars == <<handleTable, pc, pid, process, pmc, memory_usage, result, trace,
          again>>

locals == <<process, pmc, memory_usage>>

OwnerOf(h) == IF h \in Handles THEN handleTable[h] ELSE NoOwner

FreeHandles == { h \in Handles : handleTable[h] = NoOwner }

\* Handles the thread holds open.
HeldBy(t) == { h \in Handles : handleTable[h] = t }

\* One OS call as the invocation saw it: whether the call succeeded, why not
\* ("" when it did), whether the handle passed was one this invocation holds
\* open, and the counter the OS wrote (<<>> when it wrote none).
Event(call, ok, why, own, out) ==
    [call |-> call, ok |-> ok, why |-> why, own |-> own, out |-> out]

\* Why the OS may decline to open pid p.
DeclineReasons(p) ==
    IF p \in LivePids THEN {"absent", "denied"} ELSE {"absent"}

Init ==
    /\ handleTable = [h \in Handles |-> NoOwner]
    /\ pc = [t \in Threads |-> "idle"]
    /\ pid = [t \in Threads |-> 0]
    /\ process = [t \in Threads |-> NULL]
    /\ pmc = [t \in Threads |-> <<>>]
    /\ memory_usage = [t \in Threads |-> <<>>]
    /\ result = [t \in Threads |-> <<>>]
    /\ trace = [t \in Threads |-> <<>>]
    /\ again = [t \in Threads |-> FALSE]

\* ---- get_memory_usage ----
\* A caller enters get_memory_usage(p).
Call(t, p) ==
    /\ pc[t] \in {"idle", "returned"}
    /\ pc' = [pc EXCEPT ![t] = "open"]
    /\ pid' = [pid EXCEPT ![t] = p]
    /\ result' = [result EXCEPT ![t] = <<>>]
    /\ trace' = [trace EXCEPT ![t] = <<>>]
    /\ again' = [again EXCEPT ![t] = (pc[t] = "returned" /\ pid[t] = p)]
    /\ UNCHANGED <<handleTable, locals>>

\* Variant: the NULL test inverted.
OpenFailedInverted(h) == h # NULL

\* process == NULL
OpenFailed(h) == h = NULL

\* The invocation leaves the function with value v; its locals are gone.
Leave(t, v) ==
    /\ result' = [result EXCEPT ![t] = v]
    /\ pc' = [pc EXCEPT ![t] = "returned"]
    /\ process' = [process EXCEPT ![t] = NULL]
    /\ pmc' = [pmc EXCEPT ![t] = <<>>]
    /\ memory_usage' = [memory_usage EXCEPT ![t] = <<>>]

\* Variant: the early return is missing, the code goes on to the query.
OpenProcessFallThrough(t) ==
    /\ pc[t] = "open"
    /\ \/ /\ pid[t] \in LivePids
          /\ \E h \in FreeHandles :
               /\ handleTable' = [handleTable EXCEPT ![h] = t]
               /\ process' = [process EXCEPT ![t] = h]
               /\ trace' = [trace EXCEPT ![t] =
                      Append(@, Event("OpenProcess", TRUE, "", TRUE, <<>>))]
       \/ /\ \E why \in DeclineReasons(pid[t]) :
               trace' = [trace EXCEPT ![t] =
                      Append(@, Event("OpenProcess", FALSE, why, FALSE, <<>>))]
          /\ process' = [process EXCEPT ![t] = NULL]
          /\ UNCHANGED handleTable
    /\ pc' = [pc EXCEPT ![t] = "query"]
    /\ UNCHANGED <<pid, pmc, memory_usage, result, again>>

\* HANDLE process = OpenProcess(..., pid);
\* if (process == NULL) return -1;
\* The OS grants a fresh handle, or declines and returns NULL; it declines
\* pid 0 and pids that name no process.
OpenProcess(t) ==
    /\ pc[t] = "open"
    /\ \/ /\ pid[t] \in LivePids
          /\ \E h \in FreeHandles :
               /\ handleTable' = [handleTable EXCEPT ![h] = t]
               /\ trace' = [trace EXCEPT ![t] =
                      Append(@, Event("OpenProcess", TRUE, "", TRUE, <<>>))]
               /\ IF OpenFailed(h)
                  THEN Leave(t, <<NotFoundValue>>)
                  ELSE /\ process' = [process EXCEPT ![t] = h]
                       /\ pc' = [pc EXCEPT ![t] = "query"]
                       /\ UNCHANGED <<pmc, memory_usage, result>>
       \/ /\ \E why \in DeclineReasons(pid[t]) :
               trace' = [trace EXCEPT ![t] =
                      Append(@, Event("OpenProcess", FALSE, why, FALSE, <<>>))]
          /\ UNCHANGED handleTable
          /\ IF OpenFailed(NULL)
             THEN Leave(t, <<NotFoundValue>>)
             ELSE /\ process' = [process EXCEPT ![t] = NULL]
                  /\ pc' = [pc EXCEPT ![t] = "query"]
                  /\ UNCHANGED <<pmc, memory_usage, result>>
    /\ UNCHANGED <<pid, again>>

\* The handle passed to GetProcessMemoryInfo.
QueryArg(t) == process[t]

\* Variant: the failed query is tried again instead of being reported.
GetProcessMemoryInfoRetry(t) ==
    /\ pc[t] = "query"
    /\ LET h == process[t] IN
         \/ /\ OwnerOf(h) # NoOwner
            /\ \E c \in WorkingSetSizes :
                 /\ pmc' = [pmc EXCEPT ![t] = <<c>>]
                 /\ memory_usage' = [memory_usage EXCEPT ![t] = <<ToInt(c)>>]
                 /\ trace' = [trace EXCEPT ![t] =
                        Append(@, Event("GetProcessMemoryInfo", TRUE, "",
                                        OwnerOf(h) = t, <<c>>))]
            /\ pc' = [pc EXCEPT ![t] = "close"]
         \/ /\ memory_usage' = [memory_usage EXCEPT ![t] = <<-1>>]
            /\ trace' = [trace EXCEPT ![t] =
                   Append(@, Event("GetProcessMemoryInfo", FALSE, "failed",
                                   OwnerOf(h) = t, <<>>))]
            /\ pc' = [pc EXCEPT ![t] = IF Len(trace[t]) < 2 THEN "query" ELSE "close"]
            /\ UNCHANGED pmc
    /\ UNCHANGED <<handleTable, pid, process, result, again>>

\* if (GetProcessMemoryInfo(process, &pmc, sizeof(pmc)))
\*     memory_usage = pmc.WorkingSetSize;
\* else memory_usage = -1;
\* The query fails on a handle that is not open, and may fail on an open one
\* (the process has exited, or an OS error).
GetProcessMemoryInfo(t) ==
    /\ pc[t] = "query"
    /\ LET h == QueryArg(t) IN
         \/ /\ OwnerOf(h) # NoOwner
            /\ \E c \in WorkingSetSizes :
                 /\ pmc' = [pmc EXCEPT ![t] = <<c>>]
                 /\ memory_usage' = [memory_usage EXCEPT ![t] = <<ToInt(c)>>]
                 /\ trace' = [trace EXCEPT ![t] =
                        Append(@, Event("GetProcessMemoryInfo", TRUE, "",
                                        OwnerOf(h) = t, <<c>>))]
         \/ /\ memory_usage' = [memory_usage EXCEPT ![t] = <<QueryFailedValue>>]
            /\ trace' = [trace EXCEPT ![t] =
                   Append(@, Event("GetProcessMemoryInfo", FALSE, "failed",
                                   OwnerOf(h) = t, <<>>))]
            /\ UNCHANGED pmc
    /\ pc' = [pc EXCEPT ![t] = "close"]
    /\ UNCHANGED <<handleTable, pid, process, result, again>>

\* Variant: process is a variable shared by all callers (a static), so a
\* caller closes whatever handle another caller stored there.
CloseArgShared(t) == process[(t % NumThreads) + 1]

\* The handle passed to CloseHandle.
CloseArg(t) == process[t]

\* Variant: the failure branch returns without closing the handle.
CloseHandleLeak(t) ==
    /\ pc[t] = "close"
    /\ IF memory_usage[t] = <<-1>>
       THEN UNCHANGED <<handleTable, trace>>
       ELSE LET h == process[t] IN
              /\ handleTable' = [x \in Handles |->
                                   IF x = h THEN NoOwner ELSE handleTable[x]]
              /\ trace' = [trace EXCEPT ![t] =
                     Append(@, Event("CloseHandle", OwnerOf(h) # NoOwner, "",
                                     OwnerOf(h) = t, <<>>))]
    /\ Leave(t, memory_usage[t])
    /\ UNCHANGED <<pid, again>>

\* Variant: a negative value is raised as an error instead of returned.
CloseHandleThrows(t) ==
    /\ pc[t] = "close"
    /\ LET h == process[t] IN
         /\ handleTable' = [x \in Handles |->
                              IF x = h THEN NoOwner ELSE handleTable[x]]
         /\ trace' = [trace EXCEPT ![t] =
                Append(@, Event("CloseHandle", OwnerOf(h) # NoOwner, "",
                                OwnerOf(h) = t, <<>>))]
    /\ IF memory_usage[t][1] < 0
       THEN /\ pc' = [pc EXCEPT ![t] = "aborted"]
            /\ UNCHANGED <<locals, result>>
       ELSE Leave(t, memory_usage[t])
    /\ UNCHANGED <<pid, again>>

\* CloseHandle(process);
\* return memory_usage;
\* CloseHandle closes the handle when it is open and fails otherwise.
CloseHandle(t) ==
    /\ pc[t] = "close"
    /\ LET h == CloseArg(t) IN
         /\ handleTable' = [x \in Handles |->
                              IF x = h THEN NoOwner ELSE handleTable[x]]
         /\ trace' = [trace EXCEPT ![t] =
                Append(@, Event("CloseHandle", OwnerOf(h) # NoOwner, "",
                                OwnerOf(h) = t, <<>>))]
    /\ Leave(t, memory_usage[t])
    /\ UNCHANGED <<pid, again>>

\* One step of a running invocation.
Step(t) ==
    \/ OpenProcess(t)
    \/ GetProcessMemoryInfo(t)
    \/ CloseHandle(t)

Next ==
    \/ \E t \in Threads, p \in PIDs : Call(t, p)
    \/ \E t \in Threads : OpenProcess(t)
    \/ \E t \in Threads : GetProcessMemoryInfo(t)
    \/ \E t \in Threads : CloseHandle(t)

Spec == Init /\ [][Next]_vars

\* A caller's first call.
FirstCall(t, p) ==
    /\ pc[t] = "idle"
    /\ Call(t, p)

\* Every caller calls the function once.
NextOnce ==
    \/ \E t \in Threads, p \in PIDs : FirstCall(t, p)
    \/ \E t \in Threads : OpenProcess(t)
    \/ \E t \in Threads : GetProcessMemoryInfo(t)
    \/ \E t \in Threads : CloseHandle(t)

\* A caller that has entered the function keeps running: the call is
\* synchronous and each OS call returns.  No action reads what an earlier
\* invocation left behind (Call resets result and trace, Leave the locals),
\* so progress is stated for the callers' first calls, running concurrently.
FairSpec ==
    /\ Init
    /\ [][NextOnce]_vars
    /\ \A t \in Threads : WF_vars(Step(t))

TypeOK ==
    /\ pc \in [Threads -> {"idle", "open", "query", "close", "returned"}]
    /\ pid \in [Threads -> PIDs]
    /\ process \in [Threads -> Handles \cup {NULL}]
    /\ handleTable \in [Handles -> Threads \cup {NoOwner}]
    /\ \A t \in Threads : Len(result[t]) <= 1 /\ Len(memory_usage[t]) <= 1

\* ---- reading an invocation's trace ----
Returned(t) == pc[t] = "returned"

\* Positions in trace[t] of the calls of one OS function.
CallsOf(t, name) == { i \in DOMAIN trace[t] : trace[t][i].call = name }

OpenGranted(t) == \E i \in CallsOf(t, "OpenProcess") : trace[t][i].ok
OpenDeclined(t) == \E i \in CallsOf(t, "OpenProcess") : ~trace[t][i].ok
QuerySucceeded(t) == \E i \in CallsOf(t, "GetProcessMemoryInfo") : trace[t][i].ok
QueryFailed(t) == \E i \in CallsOf(t, "GetProcessMemoryInfo") : ~trace[t][i].ok

\* The counter the OS reported to the invocation's successful query.
ReportedCounter(t) ==
    LET i == CHOOSE j \in CallsOf(t, "GetProcessMemoryInfo") : trace[t][j].ok
    IN  trace[t][i].out[1]

\* ---- C1 ----
\* C1: whenever OpenProcess returned a handle and GetProcessMemoryInfo
\* succeeded, the value returned is >= 0 and equals the WorkingSetSize the OS
\* reported, for every counter value (2^31 and above included).
C1_ReturnsCounter ==
    \A t \in Threads :
        (Returned(t) /\ OpenGranted(t) /\ QuerySucceeded(t))
            => /\ result[t][1] >= 0
               /\ EqualsCounter(result[t][1], ReportedCounter(t))

\* ---- C2 ----
\* C2: when OpenProcess declines a handle, the invocation returns -1 at once:
\* it calls neither GetProcessMemoryInfo nor CloseHandle.
C2_DeclinedReturnsAtOnce ==
    \A t \in Threads :
        OpenDeclined(t)
            => /\ CallsOf(t, "GetProcessMemoryInfo") = {}
               /\ CallsOf(t, "CloseHandle") = {}
               /\ Len(trace[t]) = 1
               /\ Returned(t)
               /\ result[t] = <<-1>>

C2_Witness ==
    \E t, u \in Threads :
        /\ Returned(t) /\ OpenDeclined(t) /\ trace[t][1].why = "denied"
        /\ Returned(u) /\ OpenDeclined(u) /\ trace[u][1].why = "absent"

\* ---- C3 ----
\* C3: when a handle was obtained and GetProcessMemoryInfo failed, the
\* invocation returns -1, the value it returns when the open fails, and it
\* returns only after it has closed the handle.
C3_QueryFailureReturnsSentinel ==
    \A t \in Threads :
        (OpenGranted(t) /\ QueryFailed(t))
            => /\ (Returned(t) =>
                     /\ result[t] = <<-1>>
                     /\ result[t] = <<NotFoundValue>>
                     /\ \E i \in CallsOf(t, "CloseHandle") :
                          trace[t][i].ok /\ trace[t][i].own
                     /\ HeldBy(t) = {})
               /\ (HeldBy(t) # {} => result[t] = <<>>)

C3_Witness ==
    \E t \in Threads : Returned(t) /\ OpenGranted(t) /\ QueryFailed(t)

\* ---- C4 ----
\* C4: no handle leak.  An invocation that is not running holds no handle, a
\* returned invocation closed the handle it acquired exactly once, and when
\* no invocation is running no handle is outstanding.
C4_NoHandleLeak ==
    /\ \A t \in Threads :
         pc[t] \in {"idle", "returned"}
            => /\ HeldBy(t) = {}
               /\ Cardinality({ j \in CallsOf(t, "CloseHandle") :
                                  trace[t][j].ok /\ trace[t][j].own })
                    = Cardinality({ i \in CallsOf(t, "OpenProcess") : trace[t][i].ok })
               /\ Cardinality(CallsOf(t, "CloseHandle"))
                    = Cardinality({ i \in CallsOf(t, "OpenProcess") : trace[t][i].ok })
    /\ (\A t \in Threads : pc[t] \in {"idle", "returned"}) => FreeHandles = Handles

C4_Witness ==
    /\ \A t \in Threads : Returned(t)
    /\ FreeHandles = Handles
    /\ \E t \in Threads : OpenDeclined(t) /\ again[t]
    /\ \E t \in Threads :
         /\ OpenGranted(t) /\ again[t]
         /\ Cardinality(CallsOf(t, "CloseHandle")) = 1

\* ---- C5 ----
\* C5: the value returned is negative if and only if the query failed
\* (OpenProcess returned NULL or GetProcessMemoryInfo failed); a successful
\* query never yields -1 or another negative value.
C5_NegativeIffFailed ==
    \A t \in Threads :
        Returned(t) => ((result[t][1] < 0) <=> (OpenDeclined(t) \/ QueryFailed(t)))

\* ---- C6 ----
\* What an invocation returns, as a function of the OS responses to its own
\* calls.
OwnOutcome(t) ==
    IF OpenDeclined(t) \/ QueryFailed(t) THEN -1
    ELSE ToInt(ReportedCounter(t))

\* C6: under any interleaving, a handle is used only by the invocation that
\* opened it: every query and close is made on a handle the invocation holds
\* open after its own successful OpenProcess; no handle is closed twice; two
\* running invocations never work on the same handle; and the value returned
\* is determined by the OS responses to the invocation's own calls.
C6_HandlesAreExclusive ==
    \A t \in Threads :
        /\ \A i \in DOMAIN trace[t] :
             trace[t][i].call \in {"GetProcessMemoryInfo", "CloseHandle"}
                => /\ trace[t][1].call = "OpenProcess"
                   /\ trace[t][1].ok
                   /\ trace[t][i].own
        /\ \A i \in CallsOf(t, "CloseHandle") : trace[t][i].ok
        /\ Cardinality(CallsOf(t, "CloseHandle")) <= 1
        /\ \A u \in Threads :
             (u # t /\ pc[u] \in {"query", "close"})
                => /\ process[u] \notin HeldBy(t)
                   /\ (pc[t] \in {"query", "close"} => process[u] # process[t])
        /\ Returned(t) => result[t] = <<OwnOutcome(t)>>

\* Two invocations for the same pid are inside the function together, each
\* with its own handle, and were told different counters.
C6_Witness ==
    \E t, u \in Threads :
        /\ t # u
        /\ pid[t] = pid[u]
        /\ pc[t] = "close" /\ QuerySucceeded(t)
        /\ pc[u] = "close" /\ QuerySucceeded(u)
        /\ process[t] # process[u]
        /\ memory_usage[t][1] < 0
        /\ memory_usage[u][1] > 0

\* ---- C7 ----
\* C7: no retries.  An invocation calls OpenProcess exactly once and
\* GetProcessMemoryInfo at most once; after a call of either fails it makes no
\* further OpenProcess or GetProcessMemoryInfo call and returns the failure.
C7_NoRetries ==
    \A t \in Threads :
        /\ Cardinality(CallsOf(t, "OpenProcess")) <= 1
        /\ (pc[t] \notin {"idle", "open"}) => Cardinality(CallsOf(t, "OpenProcess")) = 1
        /\ Cardinality(CallsOf(t, "GetProcessMemoryInfo")) <= 1
        /\ \A i \in DOMAIN trace[t] :
             (trace[t][i].call # "CloseHandle" /\ ~trace[t][i].ok)
                => /\ \A j \in DOMAIN trace[t] :
                        j > i => trace[t][j].call = "CloseHandle"
                   /\ (Returned(t) => result[t][1] < 0)

C7_Witness ==
    \E t, u \in Threads :
        /\ Returned(t) /\ OpenGranted(t) /\ QueryFailed(t) /\ Len(trace[t]) = 3
        /\ Returned(u) /\ OpenDeclined(u) /\ Len(trace[u]) = 1

\* ---- C8 ----
\* C8: repetition introduces no error.  A call that repeats the caller's
\* previous call for the same pid returns a value >= 0 whenever its OS calls
\* succeed, whatever the earlier call returned.
C8_RepetitionSucceeds ==
    \A t \in Threads :
        (again[t] /\ Returned(t) /\ OpenGranted(t) /\ QuerySucceeded(t))
            => result[t][1] >= 0

\* ---- C9 ----
\* C9: every invocation, for every pid (0 and identifiers no process has
\* included), eventually returns one integer to its caller.
C9_EveryCallReturns ==
    /\ \A t \in Threads : (pc[t] = "open") ~> Returned(t)
    /\ [](\A t \in Threads :
            /\ pc[t] \in {"idle", "open", "query", "close", "returned"}
            /\ Returned(t) =>
                 /\ Len(result[t]) = 1
                 /\ result[t][1] \in (-(2^30) - 2^30)..(2^30 + (2^30 - 1)))

C9_Witness ==
    \E t, u \in Threads :
        /\ Returned(t) /\ pid[t] = 0 /\ Len(result[t]) = 1
        /\ Returned(u) /\ pid[u] = MaxPid + 1 /\ Len(result[u]) = 1

\* ---- C10 ----
\* C10: handle protocol.  GetProcessMemoryInfo is called only with a non-NULL
\* handle that OpenProcess returned and that is still open; CloseHandle is
\* called only on such a handle and only after the memory query; nothing is
\* called after CloseHandle.
C10_HandleProtocol ==
    \A t \in Threads :
        /\ \A i \in CallsOf(t, "GetProcessMemoryInfo") :
             /\ i = 2
             /\ trace[t][1].call = "OpenProcess" /\ trace[t][1].ok
             /\ trace[t][i].own
        /\ \A i \in CallsOf(t, "CloseHandle") :
             /\ i = 3
             /\ trace[t][2].call = "GetProcessMemoryInfo"
             /\ trace[t][i].own /\ trace[t][i].ok
             /\ i = Len(trace[t])
             /\ Returned(t)
        /\ (pc[t] \in {"query", "close"})
              => /\ process[t] # NULL
                 /\ HeldBy(t) = {process[t]}
        /\ (pc[t] \notin {"query", "close"}) => HeldBy(t) = {}

C10_Witness ==
    \E t \in Threads :
        /\ Returned(t)
        /\ Len(trace[t]) = 3
        /\ trace[t][3].call = "CloseHandle" /\ trace[t][3].ok
        /\ QuerySucceeded(t)

====
